---- MODULE Spec2Model ----
(***************************************************************************)
(* Backup/restore orchestration of DunamisMax/Bash:                        *)
(*   src/linux/ubuntu/_scripts/unified_restore_to_home.py  (restore run)   *)
(*   src/linux/ubuntu/_scripts/unified_backup.py           (backup run)    *)
(*                                                                         *)
(* Four specifications share the definitions below:                        *)
(*   SpecRetry   one call of the restore script's run_restic, with any     *)
(*               argument list, capture_output and max_retries;            *)
(*   SpecResolve restore_repo up to the return of get_latest_snapshot_id;  *)
(*   Spec        the restore script's main();                              *)
(*   SpecBackup  the backup script's main().                               *)
(*                                                                         *)
(* The external engine (restic) is the environment: every process          *)
(* invocation draws an exit status, a standard error text and a standard   *)
(* output from small sets.  A text is modelled by the set of phrases it    *)
(* contains, written as the engine writes them (case kept); a substring    *)
(* test is membership of the phrase.                                       *)
(***************************************************************************)
EXTENDS Integers, Sequences, FiniteSets, TLC

\* ------------------------------------------------------------------------
\* Program constants
\* ------------------------------------------------------------------------
MAX_RETRIES == 3

RETRY_DELAY_BASE == 5

\* ------------------------------------------------------------------------
\* Bounds of the model
\* ------------------------------------------------------------------------
\* max_retries of a run_restic call in SpecRetry ranges over 0..MaxN
MaxN == 3

\* a snapshot listing holds at most MaxSnaps records, with times 1..MaxTime
MaxSnaps == 3

MaxTime == 3

\* in a whole run of main (Spec) a listing holds at most MainSnaps records
MainSnaps == 1

\* the engine fails at most MaxBackupFailures leading invocations of backup
MaxBackupFailures == 3

\* ------------------------------------------------------------------------
\* Texts
\* ------------------------------------------------------------------------
\* Phrases an engine message may contain, as written by the engine.
Phrases ==
    { "connection reset by peer", "503 Service Unavailable",
      "already initialized", "repository master key",
      "no locks to remove", "permission denied" }

\* str.lower() on a phrase
Lower(p) ==
    IF p = "503 Service Unavailable" THEN "503 service unavailable" ELSE p

\* text.lower(), as the set of phrases the lowered text contains
LowerText(text) == { Lower(p) : p \in text }

\* The standard error texts the engine produces on a failure.  {} is an
\* empty standard error.
StderrTexts ==
    { {},
      {"connection reset by peer"},
      {"503 Service Unavailable"},
      {"already initialized"},
      {"connection reset by peer", "already initialized"},
      {"repository master key"},
      {"no locks to remove"},
      {"permission denied"} }

\* The terms run_restic looks for in the lowered error message.
TransientTerms ==
    { "connection reset by peer", "unexpected eof", "timeout",
      "connection refused", "network error", "429 too many requests",
      "500 internal server error", "503 service unavailable",
      "temporarily unavailable" }

\* transient = any(term in err_msg.lower() for term in [...])
IsTransient(err_msg) == \E term \in TransientTerms : term \in LowerText(err_msg)

\* str(e) of a CalledProcessError: "Command '[...]' returned non-zero exit
\* status N."  It holds the command line and the status, none of the phrases.
StrOfError(e) == {}

\* err_msg = e.stderr or str(e).  e.stderr is None unless the call piped the
\* standard error (captured), and "" is falsy as well.
ErrMsg(e) ==
    IF e.captured /\ e.stderr # {} THEN e.stderr ELSE StrOfError(e)

\* ------------------------------------------------------------------------
\* Snapshot listings
\* ------------------------------------------------------------------------
\* An absent (or empty) field of a JSON record.
NoField == ""

\* short_id / id of the snapshots a repository may hold: three complete
\* records, one without short_id, one with neither.
SnapshotIdents ==
    { [short_id |-> "4a1f", id |-> "4a1f-long"],
      [short_id |-> "9c3e", id |-> "9c3e-long"],
      [short_id |-> "e05b", id |-> "e05b-long"],
      [short_id |-> NoField, id |-> "77b0-long"],
      [short_id |-> NoField, id |-> NoField] }

SnapshotRecords ==
    { [time |-> t, short_id |-> d.short_id, id |-> d.id] :
        t \in 1..MaxTime, d \in SnapshotIdents }

\* Listings: sequences of records of distinct snapshots, in any order.
SnapshotLists ==
    { l \in UNION { [1..n -> SnapshotRecords] : n \in 0..MaxSnaps } :
        \A i, j \in DOMAIN l :
            (i # j) => <<l[i].short_id, l[i].id>> # <<l[j].short_id, l[j].id>> }

\* The listings of at most n records.
ListingsUpTo(n) ==
    IF n >= MaxSnaps THEN SnapshotLists
    ELSE { l \in SnapshotLists : Len(l) <= n }

MainSnapshotLists == ListingsUpTo(MainSnaps)

\* What a successful invocation writes to standard output.
\*   "list"    a JSON array of snapshot records (possibly empty)
\*   "null"    the JSON value null
\*   "empty"   nothing
\*   "garbage" text json.loads rejects
\*   "text"    human-readable output of a command other than snapshots --json
OtherJsonStdouts ==
    { [kind |-> k, snaps |-> << >>] : k \in {"null", "empty", "garbage"} }

JsonStdouts ==
    { [kind |-> "list", snaps |-> l] : l \in SnapshotLists } \cup OtherJsonStdouts

MainJsonStdouts ==
    { [kind |-> "list", snaps |-> l] : l \in MainSnapshotLists }
    \cup OtherJsonStdouts

TextStdout == [kind |-> "text", snaps |-> << >>]

Contains(args, word) == \E i \in DOMAIN args : args[i] = word

\* long: the repositories hold up to MaxSnaps snapshots, else up to MainSnaps.
StdoutsOf(args, long) ==
    IF ~Contains(args, "--json") THEN {TextStdout}
    ELSE IF long THEN JsonStdouts ELSE MainJsonStdouts

\* What one process invocation may answer: exit status 0 with a standard
\* output, or a non-zero status with a standard error text.
EngineOutcomes(args, long) ==
    { [rc |-> 0, stderr |-> {}, stdout |-> o] : o \in StdoutsOf(args, long) }
    \cup { [rc |-> 1, stderr |-> t, stdout |-> TextStdout] : t \in StderrTexts }

\* ------------------------------------------------------------------------
\* State
\* ------------------------------------------------------------------------
VARIABLES
    \* the run_restic call in progress (restore script)
    rr_pc,          \* "idle" | "try" | "sleep" | "returned" | "raised"
    rr_repo,        \* repo
    rr_args,        \* *args
    rr_capture,     \* capture_output
    rr_max,         \* max_retries
    retries,        \* retries
    last_error,     \* last_error (NoError for None)
    rr_delay,       \* delay
    rr_result,      \* the value returned (NoResult for None)
    rr_raised,      \* the CalledProcessError raised to the caller
    \* observations of the call in progress
    history,        \* the engine's answers, one per process invocation
    sleeps,         \* the delays slept, in order
    loop_exits,     \* times the while loop ended through its condition
    \* the environment
    long_listings,  \* the repositories hold up to MaxSnaps snapshots
    has_restic,     \* shutil.which("restic") finds the binary
    is_root,        \* os.geteuid() == 0
    repo_initialized,   \* the backup repository exists (backup script)
    backup_failures,    \* leading invocations of backup the engine fails
    \* the restore script
    pc,             \* position of main()
    cur,            \* index in Tasks of the repository being handled
    RESTORE_STATUS, \* RESTORE_STATUS
    snapshot_id,    \* snapshot_id of restore_repo
    fu_result,      \* what the last force_unlock_repo call returned
    rs_result,      \* what the last restore_repo call returned
    op_log,         \* the run_restic calls the current operation completed
    report,         \* the entries print_status_report logged last
    renders,        \* times print_status_report has run
    summary,        \* summary of main
    exit_code,      \* the process's exit status (Running until it is set)
    \* the backup script
    bk_pc,          \* position of main()
    bk_phase,       \* "backup" in backup_repo, "cleanup" in cleanup_repo
    bk_ensured,     \* calls of ensure_repo_initialized that returned
    bk_log,         \* the process invocations: command and engine answer
    bk_error,       \* the CalledProcessError main caught (NoBkError for none)
    bk_exit_code    \* the process's exit status (Running before it exits)

rrVars ==
    << rr_pc, rr_repo, rr_args, rr_capture, rr_max, retries, last_error,
       rr_delay, rr_result, rr_raised, history, sleeps, loop_exits >>

restoreVars ==
    << pc, cur, RESTORE_STATUS, snapshot_id, fu_result, rs_result, op_log,
       report, renders, summary, exit_code >>

backupVars == << bk_pc, bk_phase, bk_ensured, bk_log, bk_error, bk_exit_code >>

envVars ==
    << long_listings, has_restic, is_root, repo_initialized, backup_failures >>

vars == << rrVars, restoreVars, backupVars, envVars >>

NoError == [inv |-> 0, returncode |-> 0, captured |-> FALSE, stderr |-> {}]

NoResult == [some |-> FALSE, stdout |-> TextStdout]

\* ------------------------------------------------------------------------
\* run_restic (restore script)
\* ------------------------------------------------------------------------
\* The CalledProcessError of invocation number inv answering out.
\* subprocess.run sets e.stderr only when the call pipes the standard error.
ProcessError(inv, out, capture) ==
    [inv |-> inv, returncode |-> out.rc, captured |-> capture,
     stderr |-> IF capture THEN out.stderr ELSE {}]

\* if "init" in args and "already initialized" in err_msg
AlreadyInitialized(args, err_msg) ==
    Contains(args, "init") /\ "already initialized" \in err_msg

\* A retry decision that forgets the classification.
ShouldRetry_IgnoresTransient(transient, n, max) == n < max

\* A retry decision that allows one retry too many.
ShouldRetry_OneTooMany(transient, n, max) == transient /\ n <= max

\* if transient and retries < max_retries
ShouldRetry(transient, n, max) == transient /\ n < max

\* A delay doubled once too often.
Delay_OffByOne(n) == RETRY_DELAY_BASE * (2 ^ n)

\* delay = RETRY_DELAY_BASE * (2 ** (retries - 1))
Delay(n) == RETRY_DELAY_BASE * (2 ^ (n - 1))

\* The state of a call just entered: retries = 0, last_error = None.
CallRunRestic(repo, args, capture, max) ==
    /\ rr_pc' = "try"
    /\ rr_repo' = repo
    /\ rr_args' = args
    /\ rr_capture' = capture
    /\ rr_max' = max
    /\ retries' = 0
    /\ last_error' = NoError
    /\ rr_delay' = 0
    /\ rr_result' = NoResult
    /\ rr_raised' = NoError
    /\ history' = << >>
    /\ sleeps' = << >>
    /\ loop_exits' = 0

\* One turn of "while retries <= max_retries": the process invocation and
\* the handler of its CalledProcessError, up to the return, the raise or
\* the start of the sleep.  When the condition is false the loop ends and
\* the statements after it run.
Attempt ==
    /\ rr_pc = "try"
    /\ UNCHANGED << restoreVars, backupVars, envVars >>
    /\ IF retries <= rr_max
       THEN \E out \in EngineOutcomes(rr_args, long_listings) :
            LET inv == Len(history) + 1
                e == ProcessError(inv, out, rr_capture)
                err_msg == ErrMsg(e)
                transient == IsTransient(err_msg)
            IN  /\ history' = Append(history, [rc |-> out.rc, stderr |-> out.stderr])
                /\ UNCHANGED << rr_repo, rr_args, rr_capture, rr_max, sleeps, loop_exits >>
                /\ IF out.rc = 0
                   THEN /\ rr_pc' = "returned"
                        /\ rr_result' = IF rr_capture
                                        THEN [some |-> TRUE, stdout |-> out.stdout]
                                        ELSE NoResult
                        /\ UNCHANGED << retries, last_error, rr_delay, rr_raised >>
                   ELSE /\ last_error' = e
                        /\ IF AlreadyInitialized(rr_args, err_msg)
                           THEN /\ rr_pc' = "returned"
                                /\ rr_result' = NoResult
                                /\ UNCHANGED << retries, rr_delay, rr_raised >>
                           ELSE IF ShouldRetry(transient, retries, rr_max)
                           THEN /\ retries' = retries + 1
                                /\ rr_delay' = Delay(retries + 1)
                                /\ rr_pc' = "sleep"
                                /\ UNCHANGED << rr_result, rr_raised >>
                           ELSE /\ rr_pc' = "raised"
                                /\ rr_raised' = e
                                /\ UNCHANGED << retries, rr_delay, rr_result >>
       ELSE /\ loop_exits' = loop_exits + 1
            /\ IF last_error # NoError
               THEN rr_pc' = "raised" /\ rr_raised' = last_error
               ELSE rr_pc' = "returned" /\ UNCHANGED rr_raised
            /\ UNCHANGED << rr_repo, rr_args, rr_capture, rr_max, retries,
                            last_error, rr_delay, rr_result, history, sleeps >>

\* time.sleep(delay); continue
Sleep ==
    /\ rr_pc = "sleep"
    /\ UNCHANGED << restoreVars, backupVars, envVars >>
    /\ sleeps' = Append(sleeps, rr_delay)
    /\ rr_pc' = "try"
    /\ UNCHANGED << rr_repo, rr_args, rr_capture, rr_max, retries, last_error,
                    rr_delay, rr_result, rr_raised, history, loop_exits >>

\* The call is over and its frame is gone.
ResetRunRestic ==
    /\ rr_pc' = "idle"
    /\ rr_repo' = ""
    /\ rr_args' = << >>
    /\ rr_capture' = FALSE
    /\ rr_max' = 0
    /\ retries' = 0
    /\ last_error' = NoError
    /\ rr_delay' = 0
    /\ rr_result' = NoResult
    /\ rr_raised' = NoError
    /\ history' = << >>
    /\ sleeps' = << >>
    /\ loop_exits' = 0

RunResticIdle ==
    /\ rr_pc = "idle"
    /\ rr_repo = ""
    /\ rr_args = << >>
    /\ rr_capture = FALSE
    /\ rr_max = 0
    /\ retries = 0
    /\ last_error = NoError
    /\ rr_delay = 0
    /\ rr_result = NoResult
    /\ rr_raised = NoError
    /\ history = << >>
    /\ sleeps = << >>
    /\ loop_exits = 0

RunResticDone == rr_pc \in {"returned", "raised"}

\* ------------------------------------------------------------------------
\* The restore script: configuration
\* ------------------------------------------------------------------------
\* The keys of RESTORE_STATUS, in the order the dictionary holds them.
Tasks == << "system", "vm", "plex" >>

TaskNames == { Tasks[i] : i \in DOMAIN Tasks }

\* B2_REPO_SYSTEM, B2_REPO_VM, B2_REPO_PLEX
Repos ==
    << "b2:sawyer-backups:HOSTNAME/ubuntu-system-backup",
       "b2:sawyer-backups:HOSTNAME/vm-backups",
       "b2:sawyer-backups:HOSTNAME/plex-media-server-backup" >>

\* str(Path(RESTORE_BASE_DIR) / subdir)
RestoreTargets ==
    << "/home/sawyer/restic_backup_restore_data/system",
       "/home/sawyer/restic_backup_restore_data/vm",
       "/home/sawyer/restic_backup_restore_data/plex" >>

Running == -1

\* The messages restore_repo stores.  err_output is the text that follows
\* "Restore failed after ... seconds: ".
NoDetail == {}

StatusPending == [status |-> "pending", message |-> "", err_output |-> NoDetail]

\* A restore_repo that does not mark the task before it starts.
StatusInProgress_StaysPending == StatusPending

StatusInProgress ==
    [status |-> "in_progress", message |-> "Restore in progress...",
     err_output |-> NoDetail]

\* A restore_repo that returns without recording the failure.
StatusNoSnapshots_NotRecorded == StatusInProgress

StatusNoSnapshots ==
    [status |-> "failed", message |-> "No snapshots found for repository",
     err_output |-> NoDetail]

StatusSuccess ==
    [status |-> "success", message |-> "Restore completed", err_output |-> NoDetail]

\* A failure recorded without the text of the error.
StatusFailed_NoText(e) ==
    [status |-> "failed", message |-> "Restore failed",
     err_output |-> {"Unknown error"}]

\* err_output = e.stderr or "Unknown error"
StatusFailed(e) ==
    [status |-> "failed", message |-> "Restore failed",
     err_output |-> IF e.captured /\ e.stderr # {} THEN e.stderr
                    ELSE {"Unknown error"}]

\* ------------------------------------------------------------------------
\* is_repo_initialized, force_unlock_repo
\* ------------------------------------------------------------------------
\* An is_repo_initialized that takes every failure for a missing repository.
IsRepoInitialized_OnlyOnSuccess(ended, e) == ended = "returned"

\* is_repo_initialized, given how its run_restic call ended: True when it
\* returned, and when the error message of the error raised holds one of
\* the two texts; False otherwise.
IsRepoInitialized(ended, e) ==
    \/ ended = "returned"
    \/ \E msg \in {"already initialized", "repository master key"} :
          msg \in ErrMsg(e)

\* The except clause of force_unlock_repo, given how the unlock call ended.
UnlockResult(ended, e) ==
    \/ ended = "returned"
    \/ "no locks to remove" \in ErrMsg(e)

\* The record op_log keeps of the run_restic call that just ended.
CallRecord ==
    [repo |-> rr_repo, args |-> rr_args, ended |-> rr_pc]

\* ------------------------------------------------------------------------
\* get_latest_snapshot_id
\* ------------------------------------------------------------------------
\* list.sort is stable: a record goes behind every record already placed
\* whose time is not smaller (reverse=True keeps the order of equal keys).
InsertNewestFirst(sorted, r) ==
    LET before == { i \in DOMAIN sorted : sorted[i].time >= r.time }
        k == Cardinality(before)
    IN  SubSeq(sorted, 1, k) \o << r >> \o SubSeq(sorted, k + 1, Len(sorted))

\* A sort left out: the listing in the engine's order.
SortedNewestFirst_Unsorted(l) == l

RECURSIVE SortedNewestFirst(_)
\* sorted(snapshots, key=lambda s: s.get("time", ""), reverse=True)
SortedNewestFirst(l) ==
    IF l = << >> THEN << >>
    ELSE InsertNewestFirst(SortedNewestFirst(SubSeq(l, 1, Len(l) - 1)), l[Len(l)])

\* latest.get("short_id") or latest.get("id", "")
IdOf(r) == IF r.short_id # NoField THEN r.short_id ELSE r.id

\* get_latest_snapshot_id, given how its run_restic call ended and the
\* result it returned.  Every exception ends in return "".
LatestSnapshotId(ended, result) ==
    IF ended # "returned" THEN NoField
    ELSE IF ~result.some \/ result.stdout.kind = "empty" THEN NoField
    ELSE IF result.stdout.kind \in {"garbage", "text"} THEN NoField
    ELSE IF result.stdout.kind = "null" THEN NoField
    ELSE IF result.stdout.snaps = << >> THEN NoField
    ELSE IdOf(SortedNewestFirst(result.stdout.snaps)[1])

\* ------------------------------------------------------------------------
\* print_status_report and the summary of main
\* ------------------------------------------------------------------------
\* The entry print_status_report logs for a task: its state and its msg,
\* which ends with err_output for a failed restore call.
ReportEntry(st, task) ==
    [task |-> task, status |-> st[task].status,
     message |-> st[task].message, err_output |-> st[task].err_output]

\* A report that stops one item short.
StatusReport_DropsLast(st) ==
    [ i \in 1..(Len(Tasks) - 1) |-> ReportEntry(st, Tasks[i]) ]

\* One logged line per item of RESTORE_STATUS, in the dictionary's order.
StatusReport(st) ==
    [ i \in DOMAIN Tasks |-> ReportEntry(st, Tasks[i]) ]

Count(st, s) == Cardinality({ t \in TaskNames : st[t].status = s })

\* A summary that tests the wrong counter first.
Summary_SuccessFirst(success_count, failed_count) ==
    IF success_count > 0 THEN "SUCCESS"
    ELSE IF failed_count > 0 THEN "PARTIAL SUCCESS"
    ELSE "FAILED"

\* "SUCCESS" if failed_count == 0 else "PARTIAL SUCCESS" if success_count > 0
\* else "FAILED"
Summary(success_count, failed_count) ==
    IF failed_count = 0 THEN "SUCCESS"
    ELSE IF success_count > 0 THEN "PARTIAL SUCCESS"
    ELSE "FAILED"

\* ------------------------------------------------------------------------
\* The restore script: main
\* ------------------------------------------------------------------------
\* sys.exit(code)
Exit(code) ==
    /\ pc' = "exited"
    /\ exit_code' = code

\* check_dependencies: a missing binary ends the run with status 1.
CheckDependencies ==
    /\ pc = "check_dependencies"
    /\ IF has_restic
       THEN pc' = "check_root" /\ UNCHANGED exit_code
       ELSE Exit(1)
    /\ UNCHANGED << cur, RESTORE_STATUS, snapshot_id,
                    fu_result, rs_result, op_log, report, renders, summary >>
    /\ UNCHANGED << rrVars, backupVars, envVars >>

\* A check_root that logs the error and goes on.
CheckRoot_NoExit ==
    /\ pc = "check_root"
    /\ pc' = "make_dirs"
    /\ UNCHANGED << cur, RESTORE_STATUS, snapshot_id, exit_code,
                    fu_result, rs_result, op_log, report, renders, summary >>
    /\ UNCHANGED << rrVars, backupVars, envVars >>

\* check_root
CheckRoot ==
    /\ pc = "check_root"
    /\ IF is_root
       THEN pc' = "make_dirs" /\ UNCHANGED exit_code
       ELSE Exit(1)
    /\ UNCHANGED << cur, RESTORE_STATUS, snapshot_id,
                    fu_result, rs_result, op_log, report, renders, summary >>
    /\ UNCHANGED << rrVars, backupVars, envVars >>

\* The loop creating the restore directories: a failing mkdir ends the run.
MakeDirs ==
    /\ pc = "make_dirs"
    /\ \E ok \in BOOLEAN :
          IF ok
          THEN pc' = "force_unlock" /\ cur' = 1 /\ UNCHANGED exit_code
          ELSE Exit(1) /\ UNCHANGED cur
    /\ UNCHANGED << RESTORE_STATUS, snapshot_id,
                    fu_result, rs_result, op_log, report, renders, summary >>
    /\ UNCHANGED << rrVars, backupVars, envVars >>

\* Where main goes once force_unlock_repo has returned for repository cur.
AfterForceUnlock ==
    IF cur < Len(Tasks)
    THEN pc' = "force_unlock" /\ cur' = cur + 1
    ELSE pc' = "restore" /\ cur' = 1

\* A main that leaves a task out.
AfterRestore_SkipsOne ==
    /\ snapshot_id' = NoField
    /\ IF cur + 1 < Len(Tasks)
       THEN pc' = "restore" /\ cur' = cur + 2
       ELSE pc' = "report" /\ UNCHANGED cur

\* Where main goes once restore_repo has returned for task cur.
AfterRestore ==
    /\ snapshot_id' = NoField
    /\ IF cur < Len(Tasks)
       THEN pc' = "restore" /\ cur' = cur + 1
       ELSE pc' = "report" /\ UNCHANGED cur

\* force_unlock_repo is entered and calls is_repo_initialized, which calls
\* run_restic(repo, password, "snapshots", "--no-lock", "--json",
\* capture_output=True).
ForceUnlockRepo ==
    /\ UNCHANGED << backupVars, envVars >>
    /\ pc = "force_unlock"
    /\ pc' = "fu_is_initialized"
    /\ fu_result' = "none"
    /\ op_log' = << >>
    /\ CallRunRestic(Repos[cur], <<"snapshots", "--no-lock", "--json">>, TRUE,
                     MAX_RETRIES)
    /\ UNCHANGED << cur, RESTORE_STATUS, snapshot_id, rs_result,
                    report, renders, summary, exit_code >>

\* A force_unlock_repo that unlocks whatever is_repo_initialized returned.
ForceUnlockChecked_AlwaysUnlocks ==
    /\ UNCHANGED << backupVars, envVars >>
    /\ pc = "fu_is_initialized"
    /\ RunResticDone
    /\ op_log' = Append(op_log, CallRecord)
    /\ pc' = "fu_unlock"
    /\ CallRunRestic(Repos[cur], <<"unlock", "--remove-all">>, FALSE,
                     MAX_RETRIES)
    /\ UNCHANGED << cur, fu_result >>
    /\ UNCHANGED << RESTORE_STATUS, snapshot_id, rs_result,
                    report, renders, summary, exit_code >>

\* is_repo_initialized returns to force_unlock_repo, which returns False or
\* calls run_restic(repo, password, "unlock", "--remove-all").
ForceUnlockChecked ==
    /\ UNCHANGED << backupVars, envVars >>
    /\ pc = "fu_is_initialized"
    /\ RunResticDone
    /\ op_log' = Append(op_log, CallRecord)
    /\ IF IsRepoInitialized(rr_pc, rr_raised)
       THEN /\ pc' = "fu_unlock"
            /\ CallRunRestic(Repos[cur], <<"unlock", "--remove-all">>, FALSE,
                             MAX_RETRIES)
            /\ UNCHANGED << cur, fu_result >>
       ELSE /\ fu_result' = "false"
            /\ AfterForceUnlock
            /\ ResetRunRestic
    /\ UNCHANGED << RESTORE_STATUS, snapshot_id, rs_result,
                    report, renders, summary, exit_code >>

\* The unlock call is over: force_unlock_repo returns True or False.
ForceUnlockReturn ==
    /\ UNCHANGED << backupVars, envVars >>
    /\ pc = "fu_unlock"
    /\ RunResticDone
    /\ op_log' = Append(op_log, CallRecord)
    /\ fu_result' = IF UnlockResult(rr_pc, rr_raised) THEN "true" ELSE "false"
    /\ AfterForceUnlock
    /\ ResetRunRestic
    /\ UNCHANGED << RESTORE_STATUS, snapshot_id, rs_result,
                    report, renders, summary, exit_code >>

\* restore_repo is entered: the task is in progress, and
\* get_latest_snapshot_id calls run_restic(repo, password, "snapshots",
\* "--json", capture_output=True).
RestoreRepo ==
    /\ UNCHANGED << backupVars, envVars >>
    /\ pc = "restore"
    /\ pc' = "rs_snapshots"
    /\ RESTORE_STATUS' = [RESTORE_STATUS EXCEPT ![Tasks[cur]] = StatusInProgress]
    /\ snapshot_id' = NoField
    /\ fu_result' = "none"
    /\ rs_result' = "none"
    /\ op_log' = << >>
    /\ CallRunRestic(Repos[cur], <<"snapshots", "--json">>, TRUE, MAX_RETRIES)
    /\ UNCHANGED << cur, report, renders, summary, exit_code >>

\* get_latest_snapshot_id returns the ID, or "".
GetLatestSnapshotId ==
    /\ pc = "rs_snapshots"
    /\ RunResticDone
    /\ pc' = "rs_resolved"
    /\ snapshot_id' = LatestSnapshotId(rr_pc, rr_result)
    /\ UNCHANGED << cur, RESTORE_STATUS, fu_result, rs_result,
                    op_log, report, renders, summary, exit_code >>
    /\ UNCHANGED << rrVars, backupVars, envVars >>

\* A restore_repo that starts the restore call whatever the ID.
RestoreResolved_Unguarded ==
    /\ UNCHANGED << backupVars, envVars >>
    /\ pc = "rs_resolved"
    /\ op_log' = Append(op_log, CallRecord)
    /\ pc' = "rs_restore"
    /\ CallRunRestic(Repos[cur],
                     <<"restore", snapshot_id, "--target", RestoreTargets[cur]>>,
                     TRUE, MAX_RETRIES)
    /\ UNCHANGED << cur, RESTORE_STATUS, snapshot_id, rs_result >>
    /\ UNCHANGED << fu_result, report, renders, summary, exit_code >>

\* restore_repo after get_latest_snapshot_id: without an ID the task fails
\* and restore_repo returns False; with one, run_with_progress runs
\* run_restic(repo, password, "restore", snapshot_id, "--target",
\* restore_target, capture_output=True).
RestoreResolved ==
    /\ UNCHANGED << backupVars, envVars >>
    /\ pc = "rs_resolved"
    /\ op_log' = Append(op_log, CallRecord)
    /\ IF snapshot_id = NoField
       THEN /\ RESTORE_STATUS' =
                   [RESTORE_STATUS EXCEPT ![Tasks[cur]] = StatusNoSnapshots]
            /\ rs_result' = "false"
            /\ AfterRestore
            /\ ResetRunRestic
       ELSE /\ pc' = "rs_restore"
            /\ CallRunRestic(Repos[cur],
                             <<"restore", snapshot_id, "--target",
                               RestoreTargets[cur]>>,
                             TRUE, MAX_RETRIES)
            /\ UNCHANGED << cur, RESTORE_STATUS, snapshot_id, rs_result >>
    /\ UNCHANGED << fu_result, report, renders, summary, exit_code >>

\* The restore call is over: the task succeeds, or fails with the error's
\* standard error text.
RestoreReturn ==
    /\ UNCHANGED << backupVars, envVars >>
    /\ pc = "rs_restore"
    /\ RunResticDone
    /\ op_log' = Append(op_log, CallRecord)
    /\ RESTORE_STATUS' =
          [RESTORE_STATUS EXCEPT ![Tasks[cur]] =
              IF rr_pc = "returned" THEN StatusSuccess ELSE StatusFailed(rr_raised)]
    /\ rs_result' = IF rr_pc = "returned" THEN "true" ELSE "false"
    /\ AfterRestore
    /\ ResetRunRestic
    /\ UNCHANGED << fu_result, report, renders, summary, exit_code >>

\* A reporter that clears the map it has rendered.
PrintStatusReport_ClearsStatus ==
    /\ pc = "report"
    /\ pc' = "summary"
    /\ report' = StatusReport(RESTORE_STATUS)
    /\ renders' = renders + 1
    /\ RESTORE_STATUS' = [ t \in TaskNames |-> StatusPending ]
    /\ UNCHANGED << cur, snapshot_id,
                    fu_result, rs_result, op_log, summary, exit_code >>
    /\ UNCHANGED << rrVars, backupVars, envVars >>

\* print_status_report() at the end of main
PrintStatusReport ==
    /\ pc = "report"
    /\ pc' = "summary"
    /\ report' = StatusReport(RESTORE_STATUS)
    /\ renders' = renders + 1
    /\ UNCHANGED << cur, RESTORE_STATUS, snapshot_id,
                    fu_result, rs_result, op_log, summary, exit_code >>
    /\ UNCHANGED << rrVars, backupVars, envVars >>

\* success_count, failed_count and summary; main returns and the interpreter
\* ends the process with status 0.
Summarize ==
    /\ pc = "summary"
    /\ pc' = "done"
    /\ exit_code' = 0
    /\ summary' = Summary(Count(RESTORE_STATUS, "success"),
                          Count(RESTORE_STATUS, "failed"))
    /\ UNCHANGED << cur, RESTORE_STATUS, snapshot_id,
                    fu_result, rs_result, op_log, report, renders >>
    /\ UNCHANGED << rrVars, backupVars, envVars >>

\* ------------------------------------------------------------------------
\* signal_handler and cleanup (restore script)
\* ------------------------------------------------------------------------
\* The signals the script installs signal_handler for.
Signals == {"SIGINT", "SIGTERM", "SIGHUP"}

\* signum
Signum(sig) ==
    IF sig = "SIGINT" THEN 2 ELSE IF sig = "SIGTERM" THEN 15 ELSE 1

\* The status signal_handler passes to sys.exit.
SignalExitCode(sig) ==
    IF sig = "SIGINT" THEN 130
    ELSE IF sig = "SIGTERM" THEN 143
    ELSE 128 + Signum(sig)

SignalExitCodes == { SignalExitCode(sig) : sig \in Signals }

\* The run was ended by a signal.
Interrupted == exit_code \in SignalExitCodes

\* A cleanup that renders the report whatever the tasks' states.
AnyTaskStarted_Always(st) == TRUE

\* any(item["status"] != "pending" for item in RESTORE_STATUS.values())
AnyTaskStarted(st) == \E t \in TaskNames : st[t].status # "pending"

\* cleanup(): the entries logged last, after the call.
Cleanup(st, logged) == IF AnyTaskStarted(st) THEN StatusReport(st) ELSE logged

\* cleanup(): the times print_status_report has run, after the call.
CleanupRenders(st, n) == IF AnyTaskStarted(st) THEN n + 1 ELSE n

\* main is between its first statement and its return.
MainRunning ==
    pc \in { "check_dependencies", "check_root", "make_dirs", "force_unlock",
             "fu_is_initialized", "fu_unlock", "restore", "rs_snapshots",
             "rs_resolved", "rs_restore", "report", "summary" }

\* A signal arrives: signal_handler runs in the main thread, calls cleanup()
\* and raises SystemExit, which no except clause of the script catches.  A
\* run_restic call of the main thread is abandoned.  The restore call runs
\* in the worker thread of run_with_progress: leaving the executor's with
\* block waits for it, so the call goes on to its end before the process
\* exits, and its outcome is dropped.
Signal ==
    /\ MainRunning
    /\ \E sig \in Signals : exit_code' = SignalExitCode(sig)
    /\ report' = Cleanup(RESTORE_STATUS, report)
    /\ renders' = CleanupRenders(RESTORE_STATUS, renders)
    /\ IF pc = "rs_restore" /\ ~RunResticDone
       THEN pc' = "interrupted" /\ UNCHANGED rrVars
       ELSE pc' = "exited" /\ ResetRunRestic
    /\ UNCHANGED << cur, RESTORE_STATUS, snapshot_id, fu_result, rs_result,
                    op_log, summary >>
    /\ UNCHANGED << backupVars, envVars >>

\* The worker thread's call is over: the process exits.
InterruptedExit ==
    /\ pc = "interrupted"
    /\ RunResticDone
    /\ pc' = "exited"
    /\ ResetRunRestic
    /\ UNCHANGED << cur, RESTORE_STATUS, snapshot_id, fu_result, rs_result,
                    op_log, report, renders, summary, exit_code >>
    /\ UNCHANGED << backupVars, envVars >>

\* The interpreter ends the process, after main returned or SystemExit left
\* it: the function registered with atexit.register runs, cleanup().
AtExit ==
    /\ pc \in {"done", "exited"}
    /\ pc' = "terminated"
    /\ report' = Cleanup(RESTORE_STATUS, report)
    /\ renders' = CleanupRenders(RESTORE_STATUS, renders)
    /\ UNCHANGED << cur, RESTORE_STATUS, snapshot_id, fu_result, rs_result,
                    op_log, summary, exit_code >>
    /\ UNCHANGED << rrVars, backupVars, envVars >>

\* The restore script's variables before main starts.
RestoreStart ==
    /\ cur = 1
    /\ RESTORE_STATUS = [ t \in TaskNames |-> StatusPending ]
    /\ snapshot_id = NoField
    /\ fu_result = "none"
    /\ rs_result = "none"
    /\ op_log = << >>
    /\ report = << >>
    /\ renders = 0
    /\ summary = ""
    /\ exit_code = Running


\* ------------------------------------------------------------------------
\* The backup script
\* ------------------------------------------------------------------------
\* B2_REPO_SYSTEM of unified_backup.py
B2_REPO_SYSTEM == "b2:your_b2_system_bucket:HOSTNAME"

\* The repository strings that start with "b2:".
B2Repos == {B2_REPO_SYSTEM}

\* return not repo.startswith("b2:")
IsLocalRepo(repo) == repo \notin B2Repos

NoBkError == [cmd |-> "", returncode |-> 0]

\* The backup script's variables while another script is modelled.
BackupIdle ==
    /\ bk_pc = "idle"
    /\ bk_phase = ""
    /\ bk_ensured = 0
    /\ bk_log = << >>
    /\ bk_error = NoBkError
    /\ bk_exit_code = Running
    /\ repo_initialized = FALSE
    /\ backup_failures = 0

\* The process invocations of cmd so far.
BkInvocations(cmd) == Cardinality({ i \in DOMAIN bk_log : bk_log[i].cmd = cmd })

\* What the engine may answer to cmd.  snapshots succeeds only on an
\* existing repository; init creates a missing repository and refuses an
\* existing one with "already initialized"; the first backup_failures
\* invocations of backup fail with "connection reset by peer" and the next
\* succeeds; any command may fail on the network.
BkEngineOutcomes(cmd) ==
    LET ok == [rc |-> 0, stderr |-> {}]
        reset == [rc |-> 1, stderr |-> {"connection reset by peer"}]
        exists == [rc |-> 1, stderr |-> {"already initialized"}]
        missing == [rc |-> 1, stderr |-> {"permission denied"}]
    IN  CASE cmd = "snapshots" ->
                IF repo_initialized THEN {ok, reset} ELSE {missing, reset}
          [] cmd = "init" ->
                IF repo_initialized THEN {exists, reset} ELSE {ok, reset}
          [] cmd = "backup" ->
                IF BkInvocations("backup") < backup_failures THEN {reset} ELSE {ok}
          [] OTHER -> {ok, reset, missing}

\* run_restic of unified_backup.py: subprocess.run(cmd, check=True, env=env),
\* once.  raised says whether CalledProcessError leaves the function.
BkRunRestic(cmd, out, raised) ==
    /\ bk_log' = Append(bk_log, [cmd |-> cmd, rc |-> out.rc, stderr |-> out.stderr])
    /\ raised = (out.rc # 0)

\* except subprocess.CalledProcessError as e: ... sys.exit(e.returncode), in
\* the task loop and around cleanup_repo alike.
BkExitOnError(cmd, out) ==
    /\ bk_pc' = "exited"
    /\ bk_error' = [cmd |-> cmd, returncode |-> out.rc]
    /\ bk_exit_code' = out.rc

\* ensure_repo_initialized returns to backup_repo or cleanup_repo.
BkEnsureReturns ==
    /\ bk_ensured' = bk_ensured + 1
    /\ bk_pc' = IF bk_phase = "backup" THEN "backup" ELSE "forget"

BkCheckDependencies ==
    /\ bk_pc = "check_dependencies"
    /\ IF has_restic
       THEN bk_pc' = "check_root" /\ UNCHANGED bk_exit_code
       ELSE bk_pc' = "exited" /\ bk_exit_code' = 1
    /\ UNCHANGED << bk_phase, bk_ensured, bk_log, bk_error >>
    /\ UNCHANGED << rrVars, restoreVars, envVars >>

\* if os.geteuid() != 0: sys.exit(1); then the task loop enters backup_repo
BkCheckRoot ==
    /\ bk_pc = "check_root"
    /\ IF is_root
       THEN bk_pc' = "ensure" /\ bk_phase' = "backup" /\ UNCHANGED bk_exit_code
       ELSE bk_pc' = "exited" /\ bk_exit_code' = 1 /\ UNCHANGED bk_phase
    /\ UNCHANGED << bk_ensured, bk_log, bk_error >>
    /\ UNCHANGED << rrVars, restoreVars, envVars >>

\* ensure_repo_initialized up to its init call: a local repository is
\* checked by its config file, a B2 repository by a snapshots call.
BkEnsureRepoInitialized ==
    /\ bk_pc = "ensure"
    /\ IF IsLocalRepo(B2_REPO_SYSTEM)
       THEN /\ IF repo_initialized
               THEN BkEnsureReturns
               ELSE bk_pc' = "init" /\ UNCHANGED bk_ensured
            /\ UNCHANGED bk_log
       ELSE \E out \in BkEngineOutcomes("snapshots") :
            \E raised \in BOOLEAN :
               /\ BkRunRestic("snapshots", out, raised)
               /\ IF raised
                  THEN bk_pc' = "init" /\ UNCHANGED bk_ensured
                  ELSE BkEnsureReturns
    /\ UNCHANGED << bk_phase, bk_error, bk_exit_code >>
    /\ UNCHANGED << rrVars, restoreVars, envVars >>

\* run_restic(repo, password, "init") of ensure_repo_initialized: its error
\* is caught by none of ensure_repo_initialized, backup_repo, cleanup_repo.
BkEnsureInit ==
    /\ bk_pc = "init"
    /\ \E out \in BkEngineOutcomes("init") :
       \E raised \in BOOLEAN :
          /\ BkRunRestic("init", out, raised)
          /\ repo_initialized' = (repo_initialized \/ out.rc = 0)
          /\ IF raised
             THEN BkExitOnError("init", out) /\ UNCHANGED bk_ensured
             ELSE BkEnsureReturns /\ UNCHANGED << bk_error, bk_exit_code >>
    /\ UNCHANGED << bk_phase >>
    /\ UNCHANGED << rrVars, restoreVars, long_listings, has_restic, is_root,
                    backup_failures >>

\* run_restic(repo, password, "backup", source, "--exclude", ...) of
\* backup_repo; after the last task main enters cleanup_repo.
BkBackup ==
    /\ bk_pc = "backup"
    /\ \E out \in BkEngineOutcomes("backup") :
       \E raised \in BOOLEAN :
          /\ BkRunRestic("backup", out, raised)
          /\ IF raised
             THEN BkExitOnError("backup", out) /\ UNCHANGED bk_phase
             ELSE /\ bk_pc' = "ensure"
                  /\ bk_phase' = "cleanup"
                  /\ UNCHANGED << bk_error, bk_exit_code >>
    /\ UNCHANGED << bk_ensured >>
    /\ UNCHANGED << rrVars, restoreVars, envVars >>

\* run_restic(repo, password, "forget", "--prune", "--keep-within", "7d") of
\* cleanup_repo; then main returns.
BkForget ==
    /\ bk_pc = "forget"
    /\ \E out \in BkEngineOutcomes("forget") :
       \E raised \in BOOLEAN :
          /\ BkRunRestic("forget", out, raised)
          /\ IF raised
             THEN BkExitOnError("forget", out)
             ELSE /\ bk_pc' = "done"
                  /\ bk_exit_code' = 0
                  /\ UNCHANGED bk_error
    /\ UNCHANGED << bk_phase, bk_ensured >>
    /\ UNCHANGED << rrVars, restoreVars, envVars >>

\* backup_repo returned for the task: the loop went on to cleanup_repo.
BackupTaskSucceeded == bk_phase = "cleanup"

InitBackup ==
    /\ long_listings = FALSE
    /\ has_restic \in BOOLEAN
    /\ is_root \in BOOLEAN
    /\ repo_initialized \in BOOLEAN
    /\ backup_failures \in 0..MaxBackupFailures
    /\ bk_pc = "check_dependencies"
    /\ bk_phase = ""
    /\ bk_ensured = 0
    /\ bk_log = << >>
    /\ bk_error = NoBkError
    /\ bk_exit_code = Running
    /\ pc = "idle"
    /\ RestoreStart
    /\ RunResticIdle

NextBackup ==
    \/ BkCheckDependencies
    \/ BkCheckRoot
    \/ BkEnsureRepoInitialized
    \/ BkEnsureInit
    \/ BkBackup
    \/ BkForget

SpecBackup == InitBackup /\ [][NextBackup]_vars

\* ------------------------------------------------------------------------
\* The command line and the environment of a process invocation
\* ------------------------------------------------------------------------
\* RESTIC_PASSWORD, B2_ACCOUNT_ID, B2_ACCOUNT_KEY of unified_restore_to_home.py
RESTIC_PASSWORD == "12345678"

B2_ACCOUNT_ID == "12345678"

B2_ACCOUNT_KEY == "12345678"

Secrets == {RESTIC_PASSWORD, B2_ACCOUNT_ID, B2_ACCOUNT_KEY}

\* RESTIC_PASSWORD, B2_ACCOUNT_ID, B2_ACCOUNT_KEY of unified_backup.py
BkSecrets ==
    [RESTIC_PASSWORD |-> "your_unified_restic_password",
     B2_ACCOUNT_ID |-> "your_b2_account_id",
     B2_ACCOUNT_KEY |-> "your_b2_account_key"]

\* repo.startswith("b2:")
StartsWithB2(repo) ==
    repo \in B2Repos \cup { Repos[i] : i \in DOMAIN Repos }

\* A command line that carries the passphrase the way restic would read it
\* from an option.
Cmd_WithPassword(repo, password, args) ==
    <<"restic", "--repo", repo, "--password-command", password>> \o args

\* cmd = ["restic", "--repo", repo] + list(args), in a call that was given
\* password as well.
Cmd(repo, password, args) == <<"restic", "--repo", repo>> \o args

\* ' '.join(cmd) of the logged line, as the set of its words
CommandLine(cmd) == { cmd[i] : i \in DOMAIN cmd }

\* env, without what os.environ.copy() inherited: the variables run_restic
\* sets for the child process.
ChildEnv(repo, password, account_id, account_key) ==
    IF StartsWithB2(repo)
    THEN [RESTIC_PASSWORD |-> password, B2_ACCOUNT_ID |-> account_id,
          B2_ACCOUNT_KEY |-> account_key]
    ELSE [RESTIC_PASSWORD |-> password]

\* The commands unified_backup.py runs, and the arguments of each.
BkCommands == {"snapshots", "init", "backup", "forget"}

\* *args of the backup script's run_restic calls; the --exclude options
\* stand for all of SYSTEM_EXCLUDES.
BkArgs(cmd) ==
    CASE cmd = "snapshots" -> <<"snapshots">>
      [] cmd = "init" -> <<"init">>
      [] cmd = "backup" -> <<"backup", "/", "--exclude", "/proc/*",
                             "--exclude", "/sys/*">>
      [] OTHER -> <<"forget", "--prune", "--keep-within", "7d">>

\* ------------------------------------------------------------------------
\* Spec: the restore script's main
\* ------------------------------------------------------------------------
Init ==
    /\ long_listings = FALSE
    /\ pc = "check_dependencies"
    /\ has_restic \in BOOLEAN
    /\ is_root \in BOOLEAN
    /\ RestoreStart
    /\ RunResticIdle
    /\ BackupIdle

Next ==
    \/ CheckDependencies
    \/ CheckRoot
    \/ MakeDirs
    \/ ForceUnlockRepo
    \/ ForceUnlockChecked
    \/ ForceUnlockReturn
    \/ RestoreRepo
    \/ GetLatestSnapshotId
    \/ RestoreResolved
    \/ RestoreReturn
    \/ PrintStatusReport
    \/ Summarize
    \/ Signal
    \/ InterruptedExit
    \/ AtExit
    \/ Attempt
    \/ Sleep

Spec == Init /\ [][Next]_vars

\* ------------------------------------------------------------------------
\* SpecRetry: one run_restic call with any arguments
\* ------------------------------------------------------------------------
\* The argument lists the two scripts pass to restic.
ArgLists ==
    { <<"init">>,
      <<"snapshots", "--no-lock", "--json">>,
      <<"snapshots", "--json">>,
      <<"unlock", "--remove-all">>,
      <<"restore", "4a1f", "--target", RestoreTargets[2]>>,
      <<"backup", "/">> }

InitRetry ==
    /\ rr_pc = "try"
    /\ rr_repo = Repos[1]
    /\ rr_args \in ArgLists
    /\ rr_capture \in BOOLEAN
    /\ rr_max \in 0..MaxN
    /\ retries = 0
    /\ last_error = NoError
    /\ rr_delay = 0
    /\ rr_result = NoResult
    /\ rr_raised = NoError
    /\ history = << >>
    /\ sleeps = << >>
    /\ loop_exits = 0
    /\ long_listings = FALSE
    /\ pc = "run_restic"
    /\ has_restic = TRUE
    /\ is_root = TRUE
    /\ RestoreStart
    /\ BackupIdle

NextRetry == Attempt \/ Sleep

SpecRetry == InitRetry /\ [][NextRetry]_vars

\* ------------------------------------------------------------------------
\* SpecResolve: restore_repo up to the return of get_latest_snapshot_id,
\* on repositories of up to MaxSnaps snapshots
\* ------------------------------------------------------------------------
InitResolve ==
    /\ long_listings = TRUE
    /\ pc = "restore"
    /\ has_restic = TRUE
    /\ is_root = TRUE
    /\ RestoreStart
    /\ RunResticIdle
    /\ BackupIdle

NextResolve == RestoreRepo \/ Attempt \/ Sleep \/ GetLatestSnapshotId

SpecResolve == InitResolve /\ [][NextResolve]_vars

\* ========================================================================
\* Claims about run_restic of the restore script (SpecRetry)
\* ========================================================================
\* The error run_restic handles after invocation i of the call in progress.
ErrorOf(i) == ProcessError(i, history[i], rr_capture)

\* Invocation i failed and the engine's message names a transient condition.
FailedTransient(i) == history[i].rc # 0 /\ IsTransient(history[i].stderr)

\* Invocation i of an init command failed with an "already initialized"
\* message of the engine.
FailedAlreadyInitialized(i) ==
    /\ Contains(rr_args, "init")
    /\ history[i].rc # 0
    /\ "already initialized" \in history[i].stderr

\* C1: a command whose every invocation fails with a transient error is
\* invoked exactly max_retries + 1 times, and the error raised is the error
\* of the last invocation.  (The "already initialized" reply to init, which
\* C4 is about, is set aside.)
C1_AlwaysTransientRunsNPlus1 ==
    ( /\ RunResticDone
      /\ history # << >>
      /\ \A i \in DOMAIN history :
            FailedTransient(i) /\ ~FailedAlreadyInitialized(i) )
    => ( /\ Len(history) = rr_max + 1
         /\ rr_pc = "raised"
         /\ rr_raised = ErrorOf(Len(history)) )

\* The first invocation failed with an error run_restic does not classify
\* as transient.
FirstNotTransient ==
    /\ history # << >>
    /\ history[1].rc # 0
    /\ ~IsTransient(ErrMsg(ErrorOf(1)))

\* C2 as stated: after a first invocation that fails with an error not
\* classified transient there is exactly one invocation, no retry, no
\* sleep, and the error is raised to the caller.
C2_NonTransientRaisedAtOnce ==
    FirstNotTransient
    => ( /\ Len(history) = 1
         /\ retries = 0
         /\ sleeps = << >>
         /\ rr_pc = "raised"
         /\ rr_raised = ErrorOf(1) )

\* C2 as amended: exactly one invocation, no retry and no sleep; the error
\* is raised to the caller unless the command is init and the error message
\* holds "already initialized", in which case run_restic returns normally.
C2_NonTransientInvokedOnce ==
    FirstNotTransient
    => ( /\ Len(history) = 1
         /\ retries = 0
         /\ sleeps = << >>
         /\ IF AlreadyInitialized(rr_args, ErrMsg(ErrorOf(1)))
            THEN rr_pc = "returned" /\ rr_raised = NoError
            ELSE rr_pc = "raised" /\ rr_raised = ErrorOf(1) )

\* A captured "permission denied" of the first invocation is raised while
\* retries remain.
C2_Witness ==
    /\ FirstNotTransient
    /\ rr_capture
    /\ history[1].stderr = {"permission denied"}
    /\ rr_max >= 1
    /\ rr_pc = "raised"

\* C4: an init whose invocation fails with an "already initialized" message
\* returns success: that invocation is the last, no sleep follows it and no
\* error is raised, whatever else the text holds and however many retries
\* remain.
C4_AlreadyInitializedIsSuccess ==
    \A i \in DOMAIN history :
        FailedAlreadyInitialized(i)
        => ( /\ i = Len(history)
             /\ Len(sleeps) = i - 1
             /\ rr_pc = "returned"
             /\ rr_raised = NoError )

\* C16: the sleep before retry number n of a run_restic call lasts
\* RETRY_DELAY_BASE * 2^(n-1) seconds, whatever the earlier delays were, and
\* the delay computed for the retry in preparation is the same function of
\* its number.
C16_BackoffDoubles ==
    /\ \A n \in DOMAIN sleeps : sleeps[n] = RETRY_DELAY_BASE * (2 ^ (n - 1))
    /\ rr_pc = "sleep" => rr_delay = RETRY_DELAY_BASE * (2 ^ (retries - 1))

\* A call that slept before each of its three retries: 5, 10 and 20 seconds.
C16_Witness ==
    /\ RunResticDone
    /\ sleeps = << 5, 10, 20 >>

\* C17: a run_restic call makes at most max_retries + 1 invocations; after
\* every sleep the loop condition holds, so another invocation follows; and
\* when the call is over the sleeps number one less than the invocations, so
\* none follows the last invocation.
C17_SleepsOnlyBetweenInvocations ==
    /\ Len(history) <= rr_max + 1
    /\ loop_exits = 0
    /\ rr_pc = "try" => (retries <= rr_max /\ Len(sleeps) = Len(history))
    /\ rr_pc = "sleep" => Len(sleeps) = Len(history) - 1
    /\ RunResticDone => Len(sleeps) = Len(history) - 1

\* A call that used all its retries: four invocations, three sleeps.
C17_Witness ==
    /\ rr_pc = "raised"
    /\ rr_max = 3
    /\ Len(history) = 4
    /\ Len(sleeps) = 3

\* The engine's answer to the last invocation of the call.
LastAnswer == history[Len(history)]

\* C30: run_restic returns normally only when its last invocation exited
\* with status 0, or when it ran an init command whose error message holds
\* "already initialized"; it ends by raising the error of its last
\* invocation otherwise.  The while loop never ends through its condition,
\* so the statements after the loop never run.
C30_ReturnsOnlyOnSuccess ==
    /\ loop_exits = 0
    /\ retries <= rr_max
    /\ (rr_pc = "returned")
       => ( /\ history # << >>
            /\ \/ LastAnswer.rc = 0
               \/ /\ Contains(rr_args, "init")
                  /\ "already initialized" \in ErrMsg(ErrorOf(Len(history))) )
    /\ (rr_pc = "raised")
       => ( /\ history # << >>
            /\ LastAnswer.rc # 0
            /\ rr_raised = ErrorOf(Len(history)) )

\* A call with max_retries = 2 whose three invocations all failed: it raised
\* after the last one.
C30_Witness ==
    /\ rr_pc = "raised"
    /\ rr_max = 2
    /\ retries = 2
    /\ Len(history) = 3
    /\ LastAnswer.rc # 0
    /\ loop_exits = 0

\* ========================================================================
\* Claims about the backup script (SpecBackup)
\* ========================================================================
\* C3: a backup call whose first k invocations fail with "connection reset
\* by peer" and whose next invocation succeeds, k <= maxAttempts, makes the
\* task succeed after exactly k + 1 process invocations.
C3_BackupRetriedUntilSuccess ==
    ( /\ BkInvocations("backup") >= 1
      /\ bk_pc # "backup"
      /\ backup_failures <= MAX_RETRIES )
    => ( /\ BackupTaskSucceeded
         /\ BkInvocations("backup") = backup_failures + 1 )

\* C5: once ensure_repo_initialized has returned, the next call of it does
\* not end in an error when the engine answers its init with "already
\* initialized".
C5_SecondEnsureSucceeds ==
    ~( /\ bk_ensured >= 1
       /\ bk_pc = "exited"
       /\ bk_error.cmd = "init"
       /\ "already initialized" \in bk_log[Len(bk_log)].stderr )

\* C11: a failure of a task never aborts the run.  In the backup script: the
\* run never ends inside the task loop on the error of a command of the task
\* (init or backup).
C11_TaskFailureNeverAborts ==
    ~( /\ bk_pc = "exited"
       /\ bk_phase = "backup"
       /\ bk_error # NoBkError )

\* The forget --prune invocation of cleanup_repo failed and ended the run.
PruneFailed ==
    /\ bk_pc = "exited"
    /\ bk_phase = "cleanup"
    /\ bk_error.cmd = "forget"

\* C25: a failure of the prune step, after every backup task has succeeded,
\* does not turn the run into a failed one: the run still ends with the
\* status of a successful backup, 0.
C25_PruneFailureKeepsBackupOutcome ==
    (BackupTaskSucceeded /\ PruneFailed) => bk_exit_code = 0

\* ========================================================================
\* Claims about the restore script's main (Spec)
\* ========================================================================
\* The call log of the operation in progress holds no call of the command.
NoCallOf(log, command) == \A i \in DOMAIN log : ~Contains(log[i].args, command)

\* is_repo_initialized is about to return False to force_unlock_repo.
ReportsNotInitialized ==
    /\ pc = "fu_is_initialized"
    /\ RunResticDone
    /\ ~IsRepoInitialized(rr_pc, rr_raised)

\* C6: force_unlock_repo on a repository for which is_repo_initialized
\* reports False returns False, and starts no unlock call: no run_restic
\* call is in progress when it returns and its call log holds no unlock.
\* (A step in which a signal ends the run is no return of the function.)
C6_NoUnlockWhenNotInitialized ==
    [][ (ReportsNotInitialized /\ ~Interrupted')
        => ( /\ fu_result' = "false"
             /\ pc' \in {"force_unlock", "restore"}
             /\ rr_pc' = "idle"
             /\ history' = << >>
             /\ NoCallOf(op_log', "unlock") ) ]_vars

\* force_unlock_repo has returned False after the one call of
\* is_repo_initialized, which ended in an error.
C6_Witness ==
    /\ fu_result = "false"
    /\ pc \in {"force_unlock", "restore"}
    /\ Len(op_log) = 1
    /\ op_log[1].args = <<"snapshots", "--no-lock", "--json">>
    /\ op_log[1].ended = "raised"

\* The listing call of get_latest_snapshot_id returned the listing of a
\* repository without snapshots: an empty array, or null.
EmptyListing ==
    /\ rr_pc = "returned"
    /\ rr_args = <<"snapshots", "--json">>
    /\ rr_result.some
    /\ \/ rr_result.stdout.kind = "null"
       \/ rr_result.stdout.kind = "list" /\ rr_result.stdout.snaps = << >>

\* C8: for a repository with zero snapshots get_latest_snapshot_id returns
\* the empty ID; restore_repo then ends the task failed with the message
\* "No snapshots found for repository ...", starts no restore call, and main
\* goes on to the next task, or to the report after the last one, unless a
\* signal ends the run at that moment.
C8_NoSnapshotsFailsTheTask ==
    [][ (pc = "rs_resolved" /\ EmptyListing /\ ~Interrupted')
        => ( /\ snapshot_id = NoField
             /\ RESTORE_STATUS'[Tasks[cur]].status = "failed"
             /\ RESTORE_STATUS'[Tasks[cur]].message =
                    "No snapshots found for repository"
             /\ \A t \in TaskNames \ {Tasks[cur]} :
                    RESTORE_STATUS'[t] = RESTORE_STATUS[t]
             /\ rr_pc' = "idle"
             /\ history' = << >>
             /\ NoCallOf(op_log', "restore")
             /\ exit_code' = Running
             /\ IF cur < Len(Tasks)
                THEN pc' = "restore" /\ cur' = cur + 1
                ELSE pc' = "report" ) ]_vars

\* get_latest_snapshot_id has returned for the first task, whose repository
\* listed no snapshot.
C8_Witness ==
    /\ pc = "rs_resolved"
    /\ cur = 1
    /\ EmptyListing
    /\ rr_result.stdout.kind = "list"
    /\ snapshot_id = NoField

\* C9: each task's status only moves along pending -> in_progress ->
\* {success, failed}: every step leaves it alone, takes it from pending to
\* in_progress, or takes it from in_progress to success or failed.
C9_StatusMovesForward ==
    [][ \A t \in TaskNames :
          LET old == RESTORE_STATUS[t].status
              new == RESTORE_STATUS'[t].status
          IN  \/ new = old
              \/ old = "pending" /\ new = "in_progress"
              \/ old = "in_progress" /\ new \in {"success", "failed"} ]_vars

\* A run that ended with the first task succeeded and the second failed.
C9_Witness ==
    /\ pc = "done"
    /\ RESTORE_STATUS["system"].status = "success"
    /\ RESTORE_STATUS["vm"].status = "failed"

\* The tasks whose status is s.
TasksIn(s) == { t \in TaskNames : RESTORE_STATUS[t].status = s }

\* C10: the classification at the end of main is SUCCESS iff all tasks
\* succeeded, PARTIAL SUCCESS iff some task succeeded and some task failed,
\* FAILED iff no task succeeded.
C10_Classification ==
    pc = "done"
    => ( /\ summary = "SUCCESS" <=> TasksIn("success") = TaskNames
         /\ summary = "PARTIAL SUCCESS"
              <=> (TasksIn("success") # {} /\ TasksIn("failed") # {})
         /\ summary = "FAILED" <=> TasksIn("success") = {} )

\* A run of three tasks of which exactly one failed.
C10_Witness ==
    /\ pc = "done"
    /\ Cardinality(TasksIn("failed")) = 1
    /\ Cardinality(TasksIn("success")) = 2
    /\ summary = "PARTIAL SUCCESS"

\* C12: the final report of a completed run has exactly one entry per task,
\* and each entry shows the task's state, which is success or failed, and
\* its message.
C12_ReportListsEveryTask ==
    pc \in {"summary", "done"}
    => ( /\ Len(report) = Cardinality(TaskNames)
         /\ \A t \in TaskNames :
               \E i \in DOMAIN report :
                  /\ report[i].task = t
                  /\ \A j \in DOMAIN report : report[j].task = t => j = i
                  /\ report[i].status \in {"success", "failed"}
                  /\ report[i].status = RESTORE_STATUS[t].status
                  /\ report[i].message = RESTORE_STATUS[t].message
                  /\ report[i].err_output = RESTORE_STATUS[t].err_output )

\* A completed run whose report shows a succeeded and a failed task.
C12_Witness ==
    /\ pc = "done"
    /\ Len(report) = 3
    /\ report[1].task = "system" /\ report[1].status = "success"
    /\ report[3].task = "plex" /\ report[3].status = "failed"
    /\ report[3].err_output = {"permission denied"}

\* C13: the process exits with status 0 only if all tasks succeeded (a
\* failed task gives a non-zero status).
C13_ExitZeroOnlyIfAllSucceeded ==
    exit_code = 0 => TasksIn("success") = TaskNames

\* C14: with the restic binary missing or without root privilege the run
\* never gets past the two checks: every task stays pending, no run_restic
\* call and no process invocation is made, and the process exits with a
\* non-zero status.
C14_PreconditionsAbortBeforeTasks ==
    (~has_restic \/ ~is_root)
    => ( /\ pc \in {"check_dependencies", "check_root", "exited", "terminated"}
         /\ \A t \in TaskNames : RESTORE_STATUS[t].status = "pending"
         /\ rr_pc = "idle"
         /\ history = << >>
         /\ op_log = << >>
         /\ report = << >>
         /\ pc \in {"exited", "terminated"}
            => (exit_code # 0 /\ exit_code # Running) )

\* The run was ended by check_root.
C14_Witness ==
    /\ has_restic
    /\ ~is_root
    /\ pc = "exited"
    /\ exit_code = 1

\* The entries logged show every task, in order, in the state st gives it.
ReportShows(logged, st) ==
    /\ Len(logged) = Len(Tasks)
    /\ \A i \in DOMAIN Tasks :
          /\ logged[i].task = Tasks[i]
          /\ logged[i].status = st[Tasks[i]].status
          /\ logged[i].message = st[Tasks[i]].message

\* The step in which a signal arrives.
SignalStep == ~Interrupted /\ Interrupted'

\* C15 as stated: at whatever point a signal arrives, the report is rendered
\* with the state the tasks have, and no task's status changes.
C15_SignalRendersReport ==
    [][ SignalStep
        => ( /\ RESTORE_STATUS' = RESTORE_STATUS
             /\ ReportShows(report', RESTORE_STATUS) ) ]_vars

\* C15 as amended: a signal changes no task's status, at its arrival or
\* afterwards; the report is rendered with the state the tasks have when
\* some task has left pending, and nothing is rendered when all tasks are
\* still pending.
C15_SignalRendersStartedTasks ==
    [][ /\ SignalStep
           => ( /\ RESTORE_STATUS' = RESTORE_STATUS
                /\ IF \E t \in TaskNames : RESTORE_STATUS[t].status # "pending"
                   THEN ReportShows(report', RESTORE_STATUS)
                   ELSE report' = report )
        /\ Interrupted
           => ( /\ RESTORE_STATUS' = RESTORE_STATUS
                /\ report' = report ) ]_vars

\* A signal arrived during the restore call of the second task; the call
\* then succeeded in its thread, and the task is still in_progress, as the
\* report rendered at the signal shows it.
C15_Witness ==
    /\ Interrupted
    /\ pc = "interrupted"
    /\ cur = 2
    /\ rr_pc = "returned"
    /\ RESTORE_STATUS["system"].status = "success"
    /\ RESTORE_STATUS["vm"].status = "in_progress"
    /\ RESTORE_STATUS["plex"].status = "pending"
    /\ ReportShows(report, RESTORE_STATUS)

\* The standard error text of the last process invocation of the call.
LastStderr == history[Len(history)].stderr

\* C18: force_unlock_repo on an initialized repository returns True when
\* the unlock call succeeds and when it fails while the engine reports "no
\* locks to remove", and False for every other failure of the unlock call.
C18_NoLocksCountsAsUnlocked ==
    [][ (pc = "fu_unlock" /\ RunResticDone /\ ~Interrupted')
        => fu_result' =
              IF rr_pc = "returned" \/ "no locks to remove" \in LastStderr
              THEN "true" ELSE "false" ]_vars

\* The listing call of is_repo_initialized succeeded, or failed for good
\* with a text holding "already initialized" or "repository master key".
ListingShowsRepository ==
    \/ rr_pc = "returned"
    \/ "already initialized" \in LastStderr
    \/ "repository master key" \in LastStderr

\* C19: is_repo_initialized returns True when its listing call succeeds or
\* finally fails with a text holding "already initialized" or "repository
\* master key", and False for every other failure; it raises nothing: its
\* caller force_unlock_repo goes on to the unlock call in the first case
\* and returns False in the second, and the run goes on.
C19_InitializedFromListingOrText ==
    [][ (pc = "fu_is_initialized" /\ RunResticDone /\ ~Interrupted')
        => ( /\ exit_code' = Running
             /\ IF ListingShowsRepository
                THEN /\ pc' = "fu_unlock"
                     /\ rr_args' = <<"unlock", "--remove-all">>
                     /\ fu_result' = "none"
                ELSE /\ pc' \in {"force_unlock", "restore"}
                     /\ fu_result' = "false" ) ]_vars

\* force_unlock_repo is in its unlock call although the listing call of
\* is_repo_initialized failed.
C19_Witness ==
    /\ pc = "fu_unlock"
    /\ Len(op_log) = 1
    /\ op_log[1].args = <<"snapshots", "--no-lock", "--json">>
    /\ op_log[1].ended = "raised"

\* restore_repo returns from its restore call in this step.
RestoreCallReturns == pc = "rs_restore" /\ RunResticDone /\ ~Interrupted'

\* restore_repo returns in this step, from its restore call or for want of
\* a snapshot.
RestoreRepoReturns == rs_result' # rs_result /\ rs_result' # "none"

\* C20 as stated: the task ends success, and restore_repo returns True,
\* exactly when the restore call succeeded in the end; otherwise the task
\* ends failed with the error text captured from the call.
C20_FailedWithCapturedText ==
    [][ RestoreCallReturns
        => IF rr_pc = "returned"
           THEN /\ RESTORE_STATUS'[Tasks[cur]].status = "success"
                /\ rs_result' = "true"
           ELSE /\ RESTORE_STATUS'[Tasks[cur]].status = "failed"
                /\ RESTORE_STATUS'[Tasks[cur]].err_output = LastStderr
                /\ rs_result' = "false" ]_vars

\* C20 as amended: as stated, except that a restore call which failed
\* without any error text is recorded with "Unknown error", and that a task
\* whose repository gave no snapshot ID ends failed with the "No snapshots
\* found" message and no restore call.  Whenever restore_repo returns, the
\* task is success or failed and the value returned is True exactly for
\* success.
C20_FailedWithTextOrPlaceholder ==
    [][ /\ RestoreCallReturns
           => IF rr_pc = "returned"
              THEN /\ RESTORE_STATUS'[Tasks[cur]].status = "success"
                   /\ rs_result' = "true"
              ELSE /\ RESTORE_STATUS'[Tasks[cur]].status = "failed"
                   /\ RESTORE_STATUS'[Tasks[cur]].err_output =
                         IF LastStderr # {} THEN LastStderr
                         ELSE {"Unknown error"}
                   /\ rs_result' = "false"
        /\ (pc = "rs_resolved" /\ snapshot_id = NoField /\ ~Interrupted')
           => ( /\ RESTORE_STATUS'[Tasks[cur]].status = "failed"
                /\ RESTORE_STATUS'[Tasks[cur]].message =
                       "No snapshots found for repository"
                /\ rs_result' = "false"
                /\ NoCallOf(op_log', "restore") )
        /\ RestoreRepoReturns
           => ( /\ RESTORE_STATUS'[Tasks[cur]].status \in {"success", "failed"}
                /\ rs_result' = "true"
                     <=> RESTORE_STATUS'[Tasks[cur]].status = "success"
                /\ pc \in {"rs_resolved", "rs_restore"} ) ]_vars

\* The first task's restore call failed after retries, and the task holds the
\* text of the last error; the second task's call succeeded.
C20_Witness ==
    /\ RESTORE_STATUS["system"].status = "failed"
    /\ RESTORE_STATUS["system"].err_output = {"connection reset by peer"}
    /\ RESTORE_STATUS["vm"].status = "success"
    /\ rs_result = "true"
    /\ pc = "restore"
    /\ cur = 3

\* The arguments of the init-check of the restore script, the listing call
\* of is_repo_initialized.
InitCheckArgs == <<"snapshots", "--no-lock", "--json">>

\* restore_repo is running for task cur: a task run.
InTaskRun == pc \in {"rs_snapshots", "rs_resolved", "rs_restore"}

\* C21: in every task run, a repository operation other than the init-check
\* (the snapshot listing for the restore, the restore) is invoked only after
\* an init-check of the same repository in that task run: when the engine
\* has been invoked for such an operation, the call log of the task run
\* holds an init-check of the repository.
C21_InitCheckPrecedesOperations ==
    ( /\ InTaskRun
      /\ rr_args # InitCheckArgs
      /\ history # << >> )
    => \E i \in DOMAIN op_log :
          /\ op_log[i].repo = rr_repo
          /\ op_log[i].args = InitCheckArgs

\* The states a task ends in.
TerminalStates == {"success", "failed"}

\* Every task before a task that has left pending has ended.
StartedInOrder(st) ==
    \A i, j \in DOMAIN Tasks :
        (i < j /\ st[Tasks[j]].status # "pending")
        => st[Tasks[i]].status \in TerminalStates

\* The step enters run_restic: a call with no invocation yet.
CallStarts ==
    /\ rr_pc' = "try"
    /\ history' = << >>
    /\ << rr_pc, history >> # << rr_pc', history' >>

\* C22: the tasks run one after the other in the order system, vm, plex: a
\* task leaves pending only when every earlier task has ended, at most one
\* task is in_progress, a run_restic call (the only place a command runs
\* from once the checks are over) starts only when no other call is under
\* way, and a rendered report lists system, vm, plex in this order.
C22_TasksRunInDeclaredOrder ==
    [][ /\ StartedInOrder(RESTORE_STATUS')
        /\ Cardinality({ t \in TaskNames :
                           RESTORE_STATUS'[t].status = "in_progress" }) <= 1
        /\ CallStarts => rr_pc \in {"idle", "returned", "raised"}
        /\ (report' # << >>)
           => ( /\ Len(report') = 3
                /\ report'[1].task = "system"
                /\ report'[2].task = "vm"
                /\ report'[3].task = "plex" ) ]_vars

\* The second task's restore call is waiting to retry: the first task has
\* ended, the third is pending.
C22_Witness ==
    /\ pc = "rs_restore"
    /\ cur = 2
    /\ rr_pc = "sleep"
    /\ RESTORE_STATUS["system"].status \in TerminalStates
    /\ RESTORE_STATUS["vm"].status = "in_progress"
    /\ RESTORE_STATUS["plex"].status = "pending"

\* print_status_report runs in the step: from main, from the signal handler's
\* cleanup or from the cleanup at exit.
RenderStep == renders' # renders

\* The step is one of restore_repo: its entry, its return without a snapshot
\* ID, or its return after the restore call.
RestoreRepoStep ==
    /\ pc \in {"restore", "rs_resolved", "rs_restore"}
    /\ pc' \in {"rs_snapshots", "restore", "report"}

\* C24: rendering the report leaves RESTORE_STATUS unchanged, wherever it is
\* rendered from; RESTORE_STATUS changes only in a step of restore_repo, and
\* never in a step of the reporter, of cleanup, of force_unlock_repo, of
\* get_latest_snapshot_id or of run_restic.
C24_OnlyRestoreRepoWritesStatus ==
    [][ /\ RenderStep => RESTORE_STATUS' = RESTORE_STATUS
        /\ (RESTORE_STATUS' # RESTORE_STATUS)
           => (RestoreRepoStep /\ ~RenderStep /\ ~SignalStep) ]_vars

\* A signal during the first task's restore call: the handler's cleanup and
\* the cleanup at exit have both rendered the report, and the task is still
\* in_progress in the map.
C24_Witness ==
    /\ pc = "terminated"
    /\ Interrupted
    /\ renders = 2
    /\ RESTORE_STATUS["system"] = StatusInProgress
    /\ RESTORE_STATUS["vm"] = StatusPending
    /\ ReportShows(report, RESTORE_STATUS)

\* No word of the command line is one of the secrets.
NoSecretIn(cmd, secrets) ==
    /\ \A i \in DOMAIN cmd : cmd[i] \notin secrets
    /\ CommandLine(cmd) \cap secrets = {}

\* The values of an environment.
EnvValues(env) == { env[k] : k \in DOMAIN env }

\* C26: for every command a run_restic call issues, the passphrase and the
\* account credentials are in the environment of the child process and are
\* no argument of the command nor a word of the logged command line: for
\* the call in progress of the restore script, and for each of the four
\* commands of the backup script.
C26_SecretsOnlyInEnvironment ==
    /\ (rr_pc # "idle")
       => ( /\ NoSecretIn(Cmd(rr_repo, RESTIC_PASSWORD, rr_args), Secrets)
            /\ EnvValues(ChildEnv(rr_repo, RESTIC_PASSWORD, B2_ACCOUNT_ID,
                                  B2_ACCOUNT_KEY)) = Secrets )
    /\ \A c \in BkCommands :
          /\ NoSecretIn(Cmd(B2_REPO_SYSTEM, BkSecrets.RESTIC_PASSWORD, BkArgs(c)),
                        EnvValues(BkSecrets))
          /\ ChildEnv(B2_REPO_SYSTEM, BkSecrets.RESTIC_PASSWORD,
                      BkSecrets.B2_ACCOUNT_ID, BkSecrets.B2_ACCOUNT_KEY)
             = BkSecrets

\* The restore call of the third task is under way, with a snapshot ID and
\* the target directory as arguments.
C26_Witness ==
    /\ pc = "rs_restore"
    /\ cur = 3
    /\ rr_pc = "try"
    /\ history # << >>
    /\ Cmd(rr_repo, RESTIC_PASSWORD, rr_args)
       = <<"restic", "--repo", Repos[3], "restore", snapshot_id, "--target",
           RestoreTargets[3]>>
    /\ snapshot_id # NoField

\* The listing call of get_latest_snapshot_id ended in a way that gives no
\* snapshot ID: it raised (at once or after its retries), its output is
\* empty, null or no JSON, the list is empty, or the newest record has
\* neither short_id nor id.
NoSnapshotIdCause ==
    \/ rr_pc = "raised"
    \/ /\ rr_pc = "returned"
       /\ \/ rr_result.stdout.kind \in {"empty", "null", "garbage"}
          \/ /\ rr_result.stdout.kind = "list"
             /\ rr_result.stdout.snaps = << >>
          \/ /\ rr_result.stdout.kind = "list"
             /\ rr_result.stdout.snaps # << >>
             /\ LET latest == SortedNewestFirst(rr_result.stdout.snaps)[1]
                IN  latest.short_id = NoField /\ latest.id = NoField

\* The argument that follows "restore" in every restore call of the log and
\* in the call under way.
RestoreCallIds ==
    { op_log[i].args[2] : i \in { j \in DOMAIN op_log :
                                     op_log[j].args[1] = "restore" } }
    \cup (IF rr_args # << >> /\ rr_args[1] = "restore" THEN {rr_args[2]} ELSE {})

\* C27: no restore call carries an empty snapshot ID.  The resolution gives
\* no ID exactly when the listing call failed, its output was empty or not
\* parseable, the repository listed no snapshot, or the newest record has no
\* ID; restore_repo then ends the task failed with "No snapshots found for
\* repository ..." and returns with no restore call made.
C27_NoRestoreWithoutSnapshotId ==
    [][ /\ NoField \notin RestoreCallIds'
        /\ (pc = "rs_resolved")
           => (snapshot_id = NoField <=> NoSnapshotIdCause)
        /\ (pc = "rs_resolved" /\ snapshot_id = NoField /\ ~Interrupted')
           => ( /\ RESTORE_STATUS'[Tasks[cur]] = StatusNoSnapshots
                /\ rs_result' = "false"
                /\ rr_pc' = "idle"
                /\ NoCallOf(op_log', "restore") ) ]_vars

\* The first two tasks ended failed for want of a snapshot ID; the second
\* one's listing call returned, and its task run made no restore call.
C27_Witness ==
    /\ pc = "restore"
    /\ cur = 3
    /\ RESTORE_STATUS["system"] = StatusNoSnapshots
    /\ RESTORE_STATUS["vm"] = StatusNoSnapshots
    /\ Len(op_log) = 1
    /\ op_log[1].args = <<"snapshots", "--json">>
    /\ op_log[1].ended = "returned"

\* C28: once the signal handler has run for a signal received during a
\* restore call, the retry loop of the call makes no new attempt (the
\* invocation under way when the signal came is the last one) and no task
\* changes its status before the process exits.
C28_NoInvocationAfterSignal ==
    [][ Interrupted
        => ( /\ (history # << >>) => Len(history') <= Len(history)
             /\ RESTORE_STATUS' = RESTORE_STATUS ) ]_vars

\* C29: on every way the run ends (main returns, a signal, a fatal exit) the
\* status report is rendered at most once: print_status_report runs at most
\* once in a run.
C29_ReportRenderedAtMostOnce == renders <= 1

\* ========================================================================
\* Claims about get_latest_snapshot_id (SpecResolve)
\* ========================================================================
\* The records the listing call of get_latest_snapshot_id returned.
Listed == rr_result.stdout.snaps

\* get_latest_snapshot_id has returned from a listing of one record or more.
ResolvedListing ==
    /\ pc = "rs_resolved"
    /\ rr_pc = "returned"
    /\ rr_result.some
    /\ rr_result.stdout.kind = "list"
    /\ Listed # << >>

\* C7: for every non-empty listing, in whatever order the engine gives it,
\* get_latest_snapshot_id returns the short ID of a record whose time is the
\* maximum of the listing (the full ID where the record has no short ID).
C7_LatestHasMaximumTime ==
    ResolvedListing
    => \E i \in DOMAIN Listed :
          /\ \A j \in DOMAIN Listed : Listed[j].time <= Listed[i].time
          /\ snapshot_id = IF Listed[i].short_id # NoField
                           THEN Listed[i].short_id
                           ELSE Listed[i].id

\* Three snapshots at times 1 < 2 < 3, the newest listed second: the ID
\* returned is the newest one's short ID.
C7_Witness ==
    /\ ResolvedListing
    /\ Len(Listed) = 3
    /\ Listed[1].time = 2 /\ Listed[2].time = 3 /\ Listed[3].time = 1
    /\ Listed[2].short_id # NoField
    /\ snapshot_id = Listed[2].short_id

\* The listings that hold the records of l, in every order.
Reorderings(l) ==
    { [ i \in DOMAIN l |-> l[p[i]] ] : p \in Permutations(DOMAIN l) }

\* What run_restic returns for a listing call answered with the records l.
ListingResult(l) == [some |-> TRUE, stdout |-> [kind |-> "list", snaps |-> l]]

\* C23: a second resolution on the same snapshots returns the same ID,
\* whatever order the engine lists them in, also when several of them share
\* the maximum time: the ID get_latest_snapshot_id returned is the one it
\* returns for every reordering of the listing.
C23_ResolutionIgnoresListingOrder ==
    ResolvedListing
    => \A l \in Reorderings(Listed) :
          LatestSnapshotId("returned", ListingResult(l)) = snapshot_id

====
